---- MODULE Spec2Model ----
(***************************************************************************)
(* Model of the document upload API (apps/upload-api) and of the Temporal  *)
(* document-processing worker (apps/workers).                              *)
(*                                                                         *)
(* The upload API is a set of stateless HTTP handlers over two stores: the *)
(* MinIO bucket and the PostgreSQL table "uploads".  The multipart         *)
(* handlers persist nothing; what a client knows about a multipart upload  *)
(* is what the handlers answered, which the model keeps in "client".       *)
(***************************************************************************)
EXTENDS Integers, Sequences, FiniteSets, TLC

MaxIds == 1          \* how many uuid4 values the model hands out
MaxPart == 2         \* highest part_number a client sends
MaxDocs == 2         \* documents whose workflow execution the model follows
AttemptCap == 6      \* the attempt counter of an activity saturates here
PoolSize == 1        \* activities the worker executes at the same time

Ids == 1..MaxIds
Parts == 1..MaxPart
Docs == 1..MaxDocs
Filenames == {"a.pdf", "b.pdf"}
NoId == 0

VARIABLES
    minio,      \* object names present in bucket settings.minio_bucket
    uploads,    \* rows of table uploads, in insertion (created_at) order
    inserts,    \* the INSERT statements upload_file has handed to execute_one
    nextId,     \* the next value uuid.uuid4() returns
    resp,       \* the HTTP response of the last request handled
    client,     \* per upload_id: what the multipart handlers have answered so far
    runs        \* per document_id: the state of its DocumentProcessingWorkflow.run

vars == <<minio, uploads, inserts, nextId, resp, client, runs>>

----------------------------------------------------------------------------
(* services/database.py *)

\* get_conn is declared "async def": calling it without await yields a
\* coroutine object, not the pool's acquire context.
get_conn == "coroutine"

\* "async with x" needs x to implement __aenter__/__aexit__; a coroutine
\* object does not, and the statement raises TypeError.
async_with_enters(x) == x = "pool_acquire_context"

\* execute_one / execute_query: TRUE when the statement runs, FALSE when the
\* helper raises before touching the connection.
execute_one_runs == async_with_enters(get_conn)
execute_query_runs == async_with_enters(get_conn)

\* SELECT ... FROM uploads WHERE id = $1
RowsOf(id) == {i \in 1..Len(uploads) : uploads[i].id = id}

\* SELECT ... ORDER BY created_at DESC LIMIT $1 OFFSET $2: how many rows
PageCount(limit, offset) ==
    LET rest == IF Len(uploads) > offset THEN Len(uploads) - offset ELSE 0
    IN  IF rest < limit THEN rest ELSE limit

----------------------------------------------------------------------------
(* HTTP responses *)

\* request_id: the upload_id the request named (NoId when it names none);
\* upload_id: the upload_id in the response body (NoId when it has none).
Response(op, req, code, id, part, status) ==
    [op |-> op, request_id |-> req, code |-> code, upload_id |-> id,
     part_number |-> part, status |-> status, count |-> 0]

\* the except-branch of every handler: HTTPException(status_code=500)
Error500(op, req) == Response(op, req, 500, NoId, 0, "error")

\* what a client has been told about one upload_id by the multipart handlers
NoClient == [parts |-> {}, completion |-> "never", cancelled |-> FALSE, doc |-> NoId]

----------------------------------------------------------------------------
(* workers/worker.py: activities *)

extract_text(document_id) == "Extracted text placeholder"

chunk_document(text) == <<"chunk1", "chunk2", "chunk3">>

\* one vector of 1536 components, each 0.1, per chunk
generate_embeddings(chunks) ==
    [i \in 1..Len(chunks) |-> [dimensions |-> 1536, component |-> "0.1"]]

store_embeddings(document_id, chunks, embeddings) == TRUE

\* a workflow execution that has not been started
NoRun ==
    [pc |-> "none", phase |-> "idle", attempt |-> 0, text |-> "unset",
     chunks |-> <<>>, embeddings |-> <<>>, stored |-> FALSE, status |-> "none",
     chunks_count |-> 0]

----------------------------------------------------------------------------
(* api/upload.py *)

Init ==
    /\ minio = {}
    /\ uploads = <<>>
    /\ inserts = {}
    /\ nextId = 1
    /\ resp = Response("none", NoId, 0, NoId, 0, "none")
    /\ client = [u \in Ids |-> NoClient]
    /\ runs = [d \in Docs |-> NoRun]

\* the values of INSERT INTO uploads (...) VALUES ($1, ..., $7)
UploadRow(upload_id, filename) ==
    [id |-> upload_id, filename |-> filename,
     minio_key |-> <<upload_id, filename>>,
     upload_status |-> "completed", processing_status |-> "null"]

\* an upload_file that stores the metadata row before it puts the object
upload_file_insert_first(filename, put_ok) ==
    /\ nextId <= MaxIds
    /\ LET upload_id == nextId
           object_name == <<upload_id, filename>>
       IN  /\ nextId' = nextId + 1
           /\ inserts' = inserts \cup {UploadRow(upload_id, filename)}
           /\ IF ~execute_one_runs
              THEN /\ resp' = Error500("upload", NoId)
                   /\ UNCHANGED <<minio, uploads>>
              ELSE /\ uploads' = Append(uploads, UploadRow(upload_id, filename))
                   /\ IF put_ok
                      THEN /\ minio' = minio \cup {object_name}
                           /\ resp' = Response("upload", NoId, 200, upload_id, 0, "completed")
                      ELSE /\ minio' = minio
                           /\ resp' = Error500("upload", NoId)
    /\ UNCHANGED <<client, runs>>

\* POST /upload
upload_file(filename, put_ok) ==
    /\ nextId <= MaxIds
    /\ LET upload_id == nextId
           object_name == <<upload_id, filename>>
       IN  /\ nextId' = nextId + 1
           /\ IF ~put_ok
              THEN \* minio.put_object raises
                   /\ resp' = Error500("upload", NoId)
                   /\ UNCHANGED <<minio, uploads, inserts>>
              ELSE /\ minio' = minio \cup {object_name}
                   /\ inserts' = inserts \cup {UploadRow(upload_id, filename)}
                   /\ IF execute_one_runs
                      THEN /\ uploads' = Append(uploads, UploadRow(upload_id, filename))
                           /\ resp' = Response("upload", NoId, 200, upload_id, 0, "completed")
                      ELSE /\ uploads' = uploads
                           /\ resp' = Error500("upload", NoId)
    /\ UNCHANGED <<client, runs>>

\* POST /upload/multipart/init
init_multipart_upload(filename) ==
    /\ nextId <= MaxIds
    /\ nextId' = nextId + 1
    /\ resp' = Response("init", NoId, 200, nextId, 0, "initialized")
    /\ UNCHANGED <<minio, uploads, inserts, client, runs>>

\* POST /upload/multipart/part
upload_part(upload_id, part_number) ==
    /\ resp' = Response("part", upload_id, 200, upload_id, part_number, "uploaded")
    /\ client' = [client EXCEPT ![upload_id].parts = @ \cup {part_number}]
    /\ UNCHANGED <<minio, uploads, inserts, nextId, runs>>

\* a completion that answers with a fresh uuid4, as init_multipart_upload does
complete_response_fresh(upload_id) ==
    Response("complete", upload_id, 200, nextId, 0, "completed")

\* the body complete_multipart_upload returns
complete_response(upload_id) ==
    Response("complete", upload_id, 200, upload_id, 0, "completed")

\* POST /upload/multipart/complete
complete_multipart_upload(upload_id) ==
    /\ resp' = complete_response(upload_id)
    /\ client' = [client EXCEPT
            ![upload_id].completion = IF @ = "never" THEN "once" ELSE "again",
            ![upload_id].doc = IF @ = NoId THEN resp'.upload_id ELSE @]
    /\ UNCHANGED <<minio, uploads, inserts, nextId, runs>>

\* DELETE /upload/{upload_id}
cancel_upload(upload_id) ==
    /\ resp' = Response("cancel", upload_id, 200, upload_id, 0, "cancelled")
    /\ client' = [client EXCEPT ![upload_id].cancelled = TRUE]
    /\ UNCHANGED <<minio, uploads, inserts, nextId, runs>>

----------------------------------------------------------------------------
(* api/status.py *)

\* GET /upload/{upload_id}/status
get_upload_status(upload_id) ==
    /\ resp' = IF ~execute_one_runs
               THEN Error500("status", upload_id)
               ELSE IF RowsOf(upload_id) = {}
               THEN Response("status", upload_id, 404, NoId, 0, "not_found")
               ELSE LET row == uploads[CHOOSE i \in RowsOf(upload_id) : TRUE]
                    IN  Response("status", upload_id, 200, row.id, 0, row.upload_status)
    /\ UNCHANGED <<minio, uploads, inserts, nextId, client, runs>>

\* GET /uploads
list_uploads(limit, offset) ==
    /\ resp' = IF ~execute_query_runs
               THEN Error500("list", NoId)
               ELSE [Response("list", NoId, 200, NoId, 0, "listed")
                        EXCEPT !.count = PageCount(limit, offset)]
    /\ UNCHANGED <<minio, uploads, inserts, nextId, client, runs>>

Next ==
    \/ \E f \in Filenames, ok \in BOOLEAN : upload_file(f, ok)
    \/ \E f \in Filenames : init_multipart_upload(f)
    \/ \E u \in Ids, p \in Parts : upload_part(u, p)
    \/ \E u \in Ids : complete_multipart_upload(u)
    \/ \E u \in Ids : cancel_upload(u)
    \/ \E u \in Ids : get_upload_status(u)
    \/ \E l \in 0..MaxIds, o \in 0..MaxIds : list_uploads(l, o)

Spec == Init /\ [][Next]_vars

----------------------------------------------------------------------------
(* workers/worker.py: DocumentProcessingWorkflow and the worker *)

\* a run() that awaits generate_embeddings right after extract_text
NextStageSkipsChunk(pc) ==
    CASE pc = "extract" -> "embed"
      [] pc = "chunk" -> "embed"
      [] pc = "embed" -> "store"
      [] pc = "store" -> "done"

\* the activity run() awaits after the one at pc has returned
NextStage(pc) ==
    CASE pc = "extract" -> "chunk"
      [] pc = "chunk" -> "embed"
      [] pc = "embed" -> "store"
      [] pc = "store" -> "done"

Running == {d \in Docs : runs[d].phase = "running"}

\* A client of the task queue "document-processing" starts the workflow for
\* document_id; run() schedules its first activity, extract_text.
StartWorkflow(d) ==
    /\ runs[d].pc = "none"
    /\ runs' = [runs EXCEPT ![d].pc = "extract", ![d].phase = "scheduled"]
    /\ UNCHANGED <<minio, uploads, inserts, nextId, resp, client>>

\* The worker takes the scheduled activity of d: one more attempt begins.
ActivityStart(d) ==
    /\ runs[d].phase = "scheduled"
    /\ Cardinality(Running) < PoolSize
    /\ runs' = [runs EXCEPT ![d].phase = "running",
                            ![d].attempt = IF @ < AttemptCap THEN @ + 1 ELSE @]
    /\ UNCHANGED <<minio, uploads, inserts, nextId, resp, client>>

\* The attempt fails (the activity raises, times out or its worker dies).
\* execute_activity is called without retry_policy, so the attempt is
\* scheduled again, whatever the number of attempts so far.
ActivityFail(d) ==
    /\ runs[d].phase = "running"
    /\ runs' = [runs EXCEPT ![d].phase = "scheduled"]
    /\ UNCHANGED <<minio, uploads, inserts, nextId, resp, client>>

\* The activity returns; run() keeps its result and awaits the next activity,
\* or returns its result after store_embeddings.
ActivityComplete(d) ==
    /\ runs[d].phase = "running"
    /\ LET r == runs[d]
           after ==
             CASE r.pc = "extract" -> [r EXCEPT !.text = extract_text(d)]
               [] r.pc = "chunk" -> [r EXCEPT !.chunks = chunk_document(r.text)]
               [] r.pc = "embed" -> [r EXCEPT !.embeddings = generate_embeddings(r.chunks)]
               [] r.pc = "store" ->
                    LET stored == store_embeddings(d, r.chunks, r.embeddings)
                    IN  [r EXCEPT !.stored = stored,
                                  !.chunks_count = Len(r.chunks),
                                  !.status = IF stored THEN "completed" ELSE "failed"]
           next == NextStage(r.pc)
       IN  runs' = [runs EXCEPT ![d] =
                [after EXCEPT !.pc = next,
                              !.phase = IF next = "done" THEN "idle" ELSE "scheduled",
                              !.attempt = 0]]
    /\ UNCHANGED <<minio, uploads, inserts, nextId, resp, client>>

WorkerNext ==
    \/ \E d \in Docs : StartWorkflow(d)
    \/ \E d \in Docs : ActivityStart(d)
    \/ \E d \in Docs : ActivityFail(d)
    \/ \E d \in Docs : ActivityComplete(d)

\* the worker alone
WorkerSpec == Init /\ [][WorkerNext]_vars

\* The task queue hands every scheduled activity to the worker again and
\* again, and an attempt that is left to run returns; nothing makes a failing
\* attempt stop failing.
LiveWorkerSpec ==
    /\ WorkerSpec
    /\ \A d \in Docs : SF_vars(ActivityStart(d)) /\ WF_vars(ActivityComplete(d))

----------------------------------------------------------------------------
(* Properties *)

Highest(S) == CHOOSE n \in S : \A m \in S : m <= n

\* the part numbers S are exactly 1..N, N the highest of them
Contiguous(S) == S = {} \/ S = 1..Highest(S)

ObjectsOf(u) == {k \in minio : k[1] = u}

\* C1: a completion succeeds if and only if the part numbers acknowledged for
\* the upload are exactly 1..N; with a gap it fails and the upload is not
\* completed.
C1_CompleteIffContiguous ==
    resp.op = "complete" =>
        ((resp.status = "completed") <=> Contiguous(client[resp.request_id].parts))

\* C2: however often an upload is completed, every completion answers with
\* the document id of the first one, and the upload has at most one object in
\* the bucket and at most one row.
C2_IdempotentCompletion ==
    \A u \in Ids :
        /\ Cardinality(ObjectsOf(u)) <= 1
        /\ Cardinality(RowsOf(u)) <= 1
        /\ (resp.op = "complete" /\ resp.request_id = u) => resp.upload_id = client[u].doc

\* an upload completed a second time, after an upload_file stored an object
C2_Witness ==
    \E u \in Ids :
        /\ client[u].completion = "again"
        /\ resp.op = "complete" /\ resp.request_id = u /\ resp.status = "completed"
        /\ resp.upload_id = client[u].doc
        /\ minio # {}

\* C3: once an upload is cancelled, no object of it remains in the bucket and
\* every later part upload for it is refused.
C3_AbortClosesSession ==
    \A u \in Ids :
        client[u].cancelled =>
            /\ ObjectsOf(u) = {}
            /\ (resp.op = "part" /\ resp.request_id = u) => resp.code # 200

\* C4: once an upload is completed, no later request changes its status or
\* its acknowledged parts.
C4_CompletedIsImmutable ==
    [][\A u \in Ids :
          client[u].completion # "never" =>
              /\ client'[u].parts = client[u].parts
              /\ client'[u].cancelled = client[u].cancelled]_vars

StageIndex(pc) ==
    CASE pc = "none" -> 0
      [] pc = "extract" -> 1
      [] pc = "chunk" -> 2
      [] pc = "embed" -> 3
      [] pc = "store" -> 4
      [] pc = "done" -> 5

\* the output of every stage before pc is there
InputsAvailable(d) ==
    LET r == runs[d]
    IN  /\ StageIndex(r.pc) >= 2 => r.text = extract_text(d)
        /\ StageIndex(r.pc) >= 3 => r.chunks = chunk_document(r.text) /\ r.chunks # <<>>
        /\ StageIndex(r.pc) >= 4 => Len(r.embeddings) = Len(r.chunks)
        /\ StageIndex(r.pc) >= 5 => r.stored /\ r.status = "completed"
        /\ StageIndex(r.pc) < 5 => r.status = "none"

\* C5: the stages of a document run in the order extract, chunk, embed,
\* store: a stage begins only when the output of the one before is there, a
\* run moves one stage forward at a time and never back, and a finished run
\* does not change.
C5_StagesInOrder ==
    /\ [](\A d \in Docs : InputsAvailable(d))
    /\ [][\A d \in Docs :
            /\ StageIndex(runs'[d].pc) \in {StageIndex(runs[d].pc), StageIndex(runs[d].pc) + 1}
            /\ runs[d].pc = "done" => runs'[d] = runs[d]]_vars

\* a run that went through all four stages
C5_Witness ==
    \E d \in Docs :
        /\ runs[d].pc = "done" /\ runs[d].status = "completed"
        /\ runs[d].chunks_count = 3 /\ Len(runs[d].embeddings) = 3

\* C6: an activity is attempted at most 5 times; when the fifth attempt has
\* failed the run is failed and no attempt follows.
C6_AttemptsAreCapped ==
    \A d \in Docs :
        /\ runs[d].attempt <= 5
        /\ (runs[d].attempt = 5 /\ runs[d].phase = "scheduled") => runs[d].status = "failed"

\* C7: an upload the API has answered "completed" has its pipeline run.
C7_CompletedUploadIsEnqueued ==
    (resp.code = 200 /\ resp.status = "completed") =>
        (resp.upload_id \in Docs /\ runs[resp.upload_id].pc # "none")

\* C9: a step of one document's run changes no other document's run, and
\* every started run ends, completed or failed.
C9_IndependentProgress ==
    /\ [][\A d, e \in Docs : (d # e /\ runs'[d] # runs[d]) => runs'[e] = runs[e]]_vars
    /\ \A d \in Docs : (runs[d].pc # "none") ~> (runs[d].pc = "done")

\* C10: a status request or a listing changes neither the bucket, nor the
\* table, nor any run, and a status request for an id without a row is
\* answered 404.
C10_StatusIsReadOnly ==
    [][resp'.op \in {"status", "list"} =>
          /\ minio' = minio /\ uploads' = uploads /\ inserts' = inserts /\ runs' = runs
          /\ (resp'.op = "status" /\ RowsOf(resp'.request_id) = {}) => resp'.code = 404]_vars

\* a row of uploads, stored or handed to execute_one, names an object of the bucket
RowHasObject(row) ==
    row.upload_status = "completed" =>
        /\ row.minio_key = <<row.id, row.filename>>
        /\ row.minio_key \in minio

\* C11: upload_file writes the row marked completed only after the object is
\* in the bucket: every row of uploads marked completed, and every INSERT
\* the handler has issued, names an object present under
\* {upload_id}/{filename}, and an upload_id without an object (its put
\* failed) has neither a row nor an INSERT.
C11_CompletedRowHasObject ==
    /\ \A i \in 1..Len(uploads) : RowHasObject(uploads[i])
    /\ \A row \in inserts : RowHasObject(row)
    /\ \A u \in Ids :
          ObjectsOf(u) = {} => (RowsOf(u) = {} /\ \A row \in inserts : row.id # u)

\* an upload whose put succeeded and whose INSERT was issued
C11_Witness ==
    /\ resp.op = "upload"
    /\ \E row \in inserts : row.upload_status = "completed" /\ row.minio_key \in minio

====
